---- MODULE Spec2Model ----
(***************************************************************************)
(* ArduinoOutput (src/index.ts): the serial output adapter of the          *)
(* rock-paper-scissors robot hand, with its three idle animations and the  *)
(* rotation timer that cycles through them.                                *)
(*                                                                         *)
(* Node runs every method call and every timer callback to completion on   *)
(* one thread, so each is one atomic action; the two async methods (init,  *)
(* cleanup) are split at the awaits that wait for a timer or for I/O.      *)
(* A method is an operator from an object state s (a record of the fields, *)
(* the bytes written so far and a flag saying that an exception is         *)
(* propagating) to the object state after it.                              *)
(***************************************************************************)
EXTENDS Integers, Sequences, FiniteSets, TLC

(* RPSAction of 'rps-stuff', a numeric enum (the code increments it) whose
   three consecutive values lie below ArduinoCommand's first code, 4. *)
Rock == 1
Paper == 2
Scissors == 3
RPSActions == {Rock, Paper, Scissors}

(* enum ArduinoCommand *)
TurnWrist == 4
ThumbRelax == 5
ThumbCurl == 6

(* idleAnimations = [FingerWave, TurnWrist, CycleGestures] *)
FingerWaveIdx == 0
TurnWristIdx == 1
CycleGesturesIdx == 2
idleAnimationsLength == 3

(* this.serial *)
RELEASED == "null"
UNDEFINED == "undefined"
OPEN == "open"

(* this.idleCurrent: number = null is the empty sequence, the number i is <<i>> *)
NULL == <<>>
Num(i) == <<i>>

(* Bounds of the model. *)
MaxLog == 8
MaxLogAny == 7
MaxLogIdle == 13
MaxGame == 1
MaxAction == 4
(* number of last log entries kept where the idle mode never ends *)
MaxWindow == 4
Scores == {0, 1}
CountdownStates == {"three", "shoot"}

VARIABLES
  serial,       \* this.serial: UNDEFINED before init, OPEN, RELEASED (null)
  idleTimer,    \* this.idleTimer: TRUE when the rotation interval is live
  idleCurrent,  \* this.idleCurrent: NULL or an index into idleAnimations
  fwTimer,      \* FingerWaveAnimation.timer is live
  finger,       \* the closure variable `finger` of the live FingerWave interval
  cgTimer,      \* CycleGesturesAnimation.timer is live
  action,       \* the closure variable `action` of the live CycleGestures interval
  leaked,       \* an interval whose handle was overwritten without clearInterval
  pcInit,       \* init(): "none", "settling" (awaiting delay), "done"
  pcCleanup,    \* cleanup(): "none", "closing" (awaiting close), "done"
  log           \* the bytes written to the transport, in order, each with the
                \* operation (op) and the method (by) that sent it

vars == <<serial, idleTimer, idleCurrent, fwTimer, finger, cgTimer, action,
          leaked, pcInit, pcCleanup, log>>

sched == <<idleTimer, idleCurrent, fwTimer, finger, cgTimer, action, leaked>>

(* The object state a method works on; op names the running operation. *)
St(op) ==
  [serial |-> serial, idleTimer |-> idleTimer, idleCurrent |-> idleCurrent,
   fwTimer |-> fwTimer, finger |-> finger, cgTimer |-> cgTimer,
   action |-> action, leaked |-> leaked, log |-> log, op |-> op,
   threw |-> FALSE]

(* commandArray[0] = command on an Int8Array(1): the value modulo 2^8, signed *)
Int8(command) == ((command + 128) % 256) - 128

(* Fault: send catches the error of write and returns normally *)
send_swallows(s, by, command) ==
  IF s.threw THEN s
  ELSE IF s.serial # OPEN THEN s
  ELSE [s EXCEPT !.log = Append(@, [op |-> s.op, by |-> by, cmd |-> Int8(command)])]

(* ArduinoOutput.send: this.serial.write throws a TypeError when serial is
   undefined or null; otherwise one byte goes out. *)
send(s, by, command) ==
  IF s.threw THEN s
  ELSE IF s.serial # OPEN THEN [s EXCEPT !.threw = TRUE]
  ELSE [s EXCEPT !.log = Append(@, [op |-> s.op, by |-> by, cmd |-> Int8(command)])]

(* ---------------- TurnWristAnimation ---------------- *)
TurnWrist_do(s) == send(s, "TW.do", TurnWrist)

TurnWrist_cleanup(s) == s

(* ---------------- CycleGesturesAnimation ---------------- *)
(* Fault: cleanup sends the neutral pose first, as FingerWave's does *)
CycleGestures_cleanup_sendsNeutral(s) ==
  LET s1 == send(s, "CG.cleanup", Paper)
  IN IF s1.threw THEN s1
     ELSE IF s1.cgTimer THEN [s1 EXCEPT !.cgTimer = FALSE, !.action = Rock]
     ELSE s1

(* clearInterval drops the callback and with it its closure, so the closure
   variable goes back to its initial value when the timer is cleared. *)
CycleGestures_cleanup(s) ==
  IF s.threw THEN s
  ELSE IF s.cgTimer THEN [s EXCEPT !.cgTimer = FALSE, !.action = Rock]
  ELSE s

CycleGestures_do(s) ==
  LET s1 == send(s, "CG.do", Rock)
  IN IF s1.threw THEN s1
     ELSE [s1 EXCEPT !.leaked = @ \/ s1.cgTimer, !.cgTimer = TRUE, !.action = Rock]

(* Fault: the cycle ends one step late (> for >=) *)
CycleGestures_tick_late(s) ==
  LET s1 == [s EXCEPT !.action = @ + 1]
      s2 == send(s1, "CG.tick", s1.action)
  IN IF s2.threw THEN s2
     ELSE IF s2.action > Scissors THEN CycleGestures_cleanup(s2)
     ELSE s2

(* the setInterval callback of CycleGestures_do *)
CycleGestures_tick(s) ==
  LET s1 == [s EXCEPT !.action = @ + 1]
      s2 == send(s1, "CG.tick", s1.action)
  IN IF s2.threw THEN s2
     ELSE IF s2.action >= Scissors THEN CycleGestures_cleanup(s2)
     ELSE s2

(* ---------------- FingerWaveAnimation ---------------- *)
(* Fault: the neutral command is sent but the interval is not cleared *)
FingerWave_cleanup_noClear(s) == send(s, "FW.cleanup", Paper)

FingerWave_cleanup(s) ==
  LET s1 == send(s, "FW.cleanup", Paper)
  IN IF s1.threw THEN s1
     ELSE IF s1.fwTimer THEN [s1 EXCEPT !.fwTimer = FALSE, !.finger = 4]
     ELSE s1

FingerWave_do(s) ==
  LET s1 == send(s, "FW.do", Rock)
  IN IF s1.threw THEN s1
     ELSE [s1 EXCEPT !.leaked = @ \/ s1.fwTimer, !.fwTimer = TRUE, !.finger = 4]

(* Fault: the finger index is incremented without the modulo *)
FingerWave_tick_noMod(s) ==
  LET s1 == send(s, "FW.tick", (IF s.finger <= 0 THEN 4 ELSE s.finger - 1) * 2 + 6)
      s2 == IF s1.threw THEN s1 ELSE [s1 EXCEPT !.finger = @ + 1]
  IN send(s2, "FW.tick", s2.finger * 2 + 5)

(* Fault: the finger before the thumb is not wrapped to the pinky *)
FingerWave_tick_noWrap(s) ==
  LET s1 == send(s, "FW.tick", (s.finger - 1) * 2 + 6)
      s2 == IF s1.threw THEN s1 ELSE [s1 EXCEPT !.finger = (@ + 1) % 5]
  IN send(s2, "FW.tick", s2.finger * 2 + 5)

(* the setInterval callback of FingerWave_do *)
FingerWave_tick(s) ==
  LET s1 == send(s, "FW.tick", (IF s.finger <= 0 THEN 4 ELSE s.finger - 1) * 2 + 6)
      s2 == IF s1.threw THEN s1 ELSE [s1 EXCEPT !.finger = (@ + 1) % 5]
  IN send(s2, "FW.tick", s2.finger * 2 + 5)

(* ---------------- dynamic dispatch over idleAnimations ---------------- *)
Animation_do(i, s) ==
  IF s.threw THEN s
  ELSE CASE i = FingerWaveIdx -> FingerWave_do(s)
         [] i = TurnWristIdx -> TurnWrist_do(s)
         [] i = CycleGesturesIdx -> CycleGestures_do(s)

Animation_cleanup(i, s) ==
  IF s.threw THEN s
  ELSE CASE i = FingerWaveIdx -> FingerWave_cleanup(s)
         [] i = TurnWristIdx -> TurnWrist_cleanup(s)
         [] i = CycleGesturesIdx -> CycleGestures_cleanup(s)

(* ---------------- ArduinoOutput ---------------- *)
(* Fault: the current animation is cleaned up but idleCurrent is not reset *)
stopIdleAnimations_keepCurrent(s) ==
  LET s1 == IF s.idleCurrent # NULL
            THEN Animation_cleanup(s.idleCurrent[1], s)
            ELSE s
  IN IF s1.threw THEN s1
     ELSE IF s1.idleTimer THEN [s1 EXCEPT !.idleTimer = FALSE]
     ELSE s1

(* Fault: the rotation interval is not cleared *)
stopIdleAnimations_keepTimer(s) ==
  IF s.idleCurrent # NULL
  THEN LET c == Animation_cleanup(s.idleCurrent[1], s)
       IN IF c.threw THEN c ELSE [c EXCEPT !.idleCurrent = NULL]
  ELSE s

(* Fault: the rotation is stopped without cleaning up the current animation *)
stopIdleAnimations_noCleanup(s) ==
  LET s1 == [s EXCEPT !.idleCurrent = NULL]
  IN IF s1.idleTimer THEN [s1 EXCEPT !.idleTimer = FALSE] ELSE s1

stopIdleAnimations(s) ==
  LET s1 == IF s.idleCurrent # NULL
            THEN LET c == Animation_cleanup(s.idleCurrent[1], s)
                 IN IF c.threw THEN c ELSE [c EXCEPT !.idleCurrent = NULL]
            ELSE s
  IN IF s1.threw THEN s1
     ELSE IF s1.idleTimer THEN [s1 EXCEPT !.idleTimer = FALSE]
     ELSE s1

(* Fault: the rotation starts the next animation without cleaning up the
   current one *)
idle_tick_noCleanup(s) ==
  LET s1 == IF s.idleCurrent # NULL THEN s ELSE [s EXCEPT !.idleCurrent = Num(-1)]
      s2 == [s1 EXCEPT !.idleCurrent = Num((@[1] + 1) % idleAnimationsLength)]
  IN Animation_do(s2.idleCurrent[1], s2)

(* Fault: the first tick starts from index 0 instead of -1 *)
idle_tick_fromZero(s) ==
  LET s1 == IF s.idleCurrent # NULL
            THEN Animation_cleanup(s.idleCurrent[1], s)
            ELSE [s EXCEPT !.idleCurrent = Num(0)]
      s2 == IF s1.threw THEN s1
            ELSE [s1 EXCEPT !.idleCurrent = Num((@[1] + 1) % idleAnimationsLength)]
  IN IF s2.threw THEN s2 ELSE Animation_do(s2.idleCurrent[1], s2)

(* Fault: the index wraps one early, the last animation is never reached *)
idle_tick_shortCycle(s) ==
  LET s1 == IF s.idleCurrent # NULL
            THEN Animation_cleanup(s.idleCurrent[1], s)
            ELSE [s EXCEPT !.idleCurrent = Num(-1)]
      s2 == IF s1.threw THEN s1
            ELSE [s1 EXCEPT !.idleCurrent = Num((@[1] + 1) % (idleAnimationsLength - 1))]
  IN IF s2.threw THEN s2 ELSE Animation_do(s2.idleCurrent[1], s2)

(* the setInterval callback of idle() *)
idle_tick(s) ==
  LET s1 == IF s.idleCurrent # NULL
            THEN Animation_cleanup(s.idleCurrent[1], s)
            ELSE [s EXCEPT !.idleCurrent = Num(-1)]
      s2 == IF s1.threw THEN s1
            ELSE [s1 EXCEPT !.idleCurrent = Num((@[1] + 1) % idleAnimationsLength)]
  IN IF s2.threw THEN s2 ELSE Animation_do(s2.idleCurrent[1], s2)

(* Fault: no test of this.idleTimer, every call sets a new interval *)
idle_noGuard(s) ==
  LET s1 == send(s, "out", Paper)
  IN IF s1.threw THEN s1
     ELSE [s1 EXCEPT !.leaked = @ \/ s1.idleTimer, !.idleTimer = TRUE]

(* Fault: a call while the rotation runs restarts the rotation from none *)
idle_resetsRotation(s) ==
  LET s1 == send(s, "out", Paper)
  IN IF s1.threw THEN s1
     ELSE IF ~s1.idleTimer THEN [s1 EXCEPT !.idleTimer = TRUE]
     ELSE [s1 EXCEPT !.idleCurrent = NULL]

idle(s) ==
  LET s1 == send(s, "out", Paper)
  IN IF s1.threw THEN s1
     ELSE IF ~s1.idleTimer THEN [s1 EXCEPT !.idleTimer = TRUE]
     ELSE s1

(* Fault: the countdown stops the idle animations before its command *)
countdown_stopsIdle(s, state) == send(stopIdleAnimations(s), "out", TurnWrist)

countdown(s, state) == send(s, "out", TurnWrist)

(* Fault: the chosen move is ignored and a fixed pose is sent *)
shoot_fixed(s, a) == send(s, "out", Rock)

shoot(s, a) == send(s, "out", a)

(* Fault: the game starts without stopping the idle animations *)
gameStart_noStop(s) == send(s, "out", Rock)

gameStart(s) == send(stopIdleAnimations(s), "out", Rock)

tryAgain(s) == s

robotWin(s, robot, human) == send(s, "out", Rock)

humanWin(s, robot, human) == send(s, "out", Rock)

(* Fault: a tie shows the tied move instead of the fixed pose *)
tie_showsAction(s, a) == send(s, "out", a)

tie(s, a) == send(s, "out", Rock)

score(s, robot, human) == s

gameStop(s) == send(s, "out", Paper)

(* Fault: teardown without stopping the idle animations *)
cleanup_begin_noStop(s) == send(s, "out", Paper)

(* cleanup() up to its second await: stopIdleAnimations(), send(Paper), and
   the call of the promisified close *)
cleanup_begin(s) == send(stopIdleAnimations(s), "out", Paper)

(* ---------------- the state machine ---------------- *)
Init ==
  /\ serial = UNDEFINED
  /\ idleTimer = FALSE
  /\ idleCurrent = NULL
  /\ fwTimer = FALSE
  /\ finger = 4
  /\ cgTimer = FALSE
  /\ action = Rock
  /\ leaked = FALSE
  /\ pcInit = "none"
  /\ pcCleanup = "none"
  /\ log = <<>>

GameEntries(l) == Cardinality({i \in 1..Len(l) : l[i].op = "game"})

(* The fields and the log become those of r; an exception leaves the
   assignments made before it in place. *)
Commit(r) ==
  /\ GameEntries(r.log) <= MaxGame
  /\ r.action <= MaxAction
  /\ serial' = r.serial
  /\ idleTimer' = r.idleTimer
  /\ idleCurrent' = r.idleCurrent
  /\ fwTimer' = r.fwTimer
  /\ finger' = r.finger
  /\ cgTimer' = r.cgTimer
  /\ action' = r.action
  /\ leaked' = r.leaked
  /\ log' = r.log

(* External calls of the game engine. *)
InitCall ==
  /\ pcInit = "none"
  /\ serial' = OPEN
  /\ pcInit' = "settling"
  /\ UNCHANGED <<sched, pcCleanup, log>>

Idle ==
  /\ Commit(idle(St("idle")))
  /\ UNCHANGED <<pcInit, pcCleanup>>

Countdown ==
  /\ \E state \in CountdownStates : Commit(countdown(St("game"), state))
  /\ UNCHANGED <<pcInit, pcCleanup>>

Shoot ==
  /\ \E a \in RPSActions : Commit(shoot(St("game"), a))
  /\ UNCHANGED <<pcInit, pcCleanup>>

GameStart ==
  /\ Commit(gameStart(St("gameStart")))
  /\ UNCHANGED <<pcInit, pcCleanup>>

TryAgain ==
  /\ Commit(tryAgain(St("game")))
  /\ UNCHANGED <<pcInit, pcCleanup>>

RobotWin ==
  /\ \E robot \in RPSActions, human \in RPSActions :
        Commit(robotWin(St("game"), robot, human))
  /\ UNCHANGED <<pcInit, pcCleanup>>

HumanWin ==
  /\ \E robot \in RPSActions, human \in RPSActions :
        Commit(humanWin(St("game"), robot, human))
  /\ UNCHANGED <<pcInit, pcCleanup>>

Tie ==
  /\ \E a \in RPSActions : Commit(tie(St("game"), a))
  /\ UNCHANGED <<pcInit, pcCleanup>>

Score ==
  /\ \E robot \in Scores, human \in Scores : Commit(score(St("game"), robot, human))
  /\ UNCHANGED <<pcInit, pcCleanup>>

GameStop ==
  /\ Commit(gameStop(St("game")))
  /\ UNCHANGED <<pcInit, pcCleanup>>

StopIdleAnimations ==
  /\ Commit(stopIdleAnimations(St("stopIdle")))
  /\ UNCHANGED <<pcInit, pcCleanup>>

Cleanup ==
  /\ LET r == cleanup_begin(St("cleanup"))
     IN /\ Commit(r)
        /\ pcCleanup' = IF r.threw /\ pcCleanup # "closing" THEN "done" ELSE "closing"
  /\ UNCHANGED pcInit

(* Continuations and timer callbacks, run by the event loop. *)
InitSettled ==
  /\ pcInit = "settling"
  /\ Commit(send(St("init"), "out", Rock))
  /\ pcInit' = "done"
  /\ UNCHANGED pcCleanup

(* close() called back without an error: this.serial = null *)
CleanupClosed ==
  /\ pcCleanup = "closing"
  /\ serial' = RELEASED
  /\ pcCleanup' = "done"
  /\ UNCHANGED <<sched, pcInit, log>>

(* close() called back with an error: the await throws, serial is kept *)
CleanupFailed ==
  /\ pcCleanup = "closing"
  /\ pcCleanup' = "done"
  /\ UNCHANGED <<serial, sched, pcInit, log>>

IdleTick ==
  /\ idleTimer
  /\ Commit(idle_tick(St("idleTick")))
  /\ UNCHANGED <<pcInit, pcCleanup>>

CycleGesturesTick ==
  /\ cgTimer
  /\ Commit(CycleGestures_tick(St("cgTick")))
  /\ UNCHANGED <<pcInit, pcCleanup>>

FingerWaveTick ==
  /\ fwTimer
  /\ Commit(FingerWave_tick(St("fwTick")))
  /\ UNCHANGED <<pcInit, pcCleanup>>

(* The engine keeps the lifecycle of the output: init() first and complete
   before any other call, cleanup() as its last call. *)
InUse == pcInit = "done" /\ pcCleanup = "none" /\ Len(log) < MaxLog

Running == Len(log) < MaxLog

Next ==
  \/ InitCall
  \/ InitSettled
  \/ InUse /\ Idle
  \/ InUse /\ Countdown
  \/ InUse /\ Shoot
  \/ InUse /\ GameStart
  \/ InUse /\ TryAgain
  \/ InUse /\ RobotWin
  \/ InUse /\ HumanWin
  \/ InUse /\ Tie
  \/ InUse /\ Score
  \/ InUse /\ GameStop
  \/ InUse /\ StopIdleAnimations
  \/ InUse /\ Cleanup
  \/ CleanupClosed
  \/ CleanupFailed
  \/ Running /\ IdleTick
  \/ Running /\ CycleGesturesTick
  \/ Running /\ FingerWaveTick

Spec == Init /\ [][Next]_vars

(* The engine goes on calling during and after teardown. *)
InUseAny == pcInit = "done" /\ Len(log) < MaxLogAny

RunningAny == Len(log) < MaxLogAny

NextAny ==
  \/ InitCall
  \/ InitSettled
  \/ InUseAny /\ Idle
  \/ InUseAny /\ Countdown
  \/ InUseAny /\ Shoot
  \/ InUseAny /\ GameStart
  \/ InUseAny /\ TryAgain
  \/ InUseAny /\ RobotWin
  \/ InUseAny /\ HumanWin
  \/ InUseAny /\ Tie
  \/ InUseAny /\ Score
  \/ InUseAny /\ GameStop
  \/ InUseAny /\ StopIdleAnimations
  \/ InUseAny /\ Cleanup
  \/ CleanupClosed
  \/ CleanupFailed
  \/ RunningAny /\ IdleTick
  \/ RunningAny /\ CycleGesturesTick
  \/ RunningAny /\ FingerWaveTick

SpecAny == Init /\ [][NextAny]_vars

(* setInterval runs its callback again and again while the interval is not
   cleared: the tick of a live CycleGestures timer is weakly fair. *)
SpecFair == Spec /\ WF_vars(Running /\ CycleGesturesTick)

(* Idle periods alone: the engine only enters idle mode and starts games,
   which leaves room for long runs of the animations. *)
InUseIdle == pcInit = "done" /\ pcCleanup = "none" /\ Len(log) < MaxLogIdle

RunningIdle == Len(log) < MaxLogIdle

NextIdle ==
  \/ InitCall
  \/ InitSettled
  \/ InUseIdle /\ Idle
  \/ InUseIdle /\ GameStart
  \/ RunningIdle /\ IdleTick
  \/ RunningIdle /\ CycleGesturesTick
  \/ RunningIdle /\ FingerWaveTick

SpecIdle == Init /\ [][NextIdle]_vars

(* Idle mode that never ends: after init the engine only calls idle(), and
   the timers run for ever.  The log keeps the last MaxWindow commands
   written, so the state space stays finite without stopping the timers. *)
Window(l) ==
  IF Len(l) <= MaxWindow THEN l ELSE SubSeq(l, Len(l) - MaxWindow + 1, Len(l))

CommitWindow(r) ==
  /\ serial' = r.serial
  /\ idleTimer' = r.idleTimer
  /\ idleCurrent' = r.idleCurrent
  /\ fwTimer' = r.fwTimer
  /\ finger' = r.finger
  /\ cgTimer' = r.cgTimer
  /\ action' = r.action
  /\ leaked' = r.leaked
  /\ log' = Window(r.log)

IdleRotate ==
  /\ pcInit = "done"
  /\ CommitWindow(idle(St("idle")))
  /\ UNCHANGED <<pcInit, pcCleanup>>

IdleTickRotate ==
  /\ idleTimer
  /\ CommitWindow(idle_tick(St("idleTick")))
  /\ UNCHANGED <<pcInit, pcCleanup>>

CycleGesturesTickRotate ==
  /\ cgTimer
  /\ CommitWindow(CycleGestures_tick(St("cgTick")))
  /\ UNCHANGED <<pcInit, pcCleanup>>

FingerWaveTickRotate ==
  /\ fwTimer
  /\ CommitWindow(FingerWave_tick(St("fwTick")))
  /\ UNCHANGED <<pcInit, pcCleanup>>

NextRotate ==
  \/ InitCall
  \/ InitSettled
  \/ IdleRotate
  \/ IdleTickRotate
  \/ CycleGesturesTickRotate
  \/ FingerWaveTickRotate

(* setInterval runs the rotation callback again and again while the rotation
   interval is not cleared, and nothing clears it here. *)
SpecRotate == Init /\ [][NextRotate]_vars /\ WF_vars(IdleTickRotate)

(* ---------------- observations on the state and the log ---------------- *)
NoTimers == ~idleTimer /\ ~fwTimer /\ ~cgTimer /\ ~leaked

Last(l) == l[Len(l)]

Entry(op, by, cmd) == [op |-> op, by |-> by, cmd |-> cmd]

TimerOps == {"idleTick", "cgTick", "fwTick"}

(* The entries written by idle() and by gameStart() itself. *)
IsIdleEntry(e) == e.op = "idle"
IsGameStartEntry(e) == e.op = "gameStart" /\ e.by = "out"

(* The engine's latest call among idle() and gameStart() was gameStart(). *)
GameStartedSince(l) ==
  \E i \in 1..Len(l) :
     /\ IsGameStartEntry(l[i])
     /\ \A k \in (i + 1)..Len(l) : ~IsIdleEntry(l[k])

(* idle() has been called since the last gameStart(), or with no gameStart() at all *)
IdleCalledSince(l) ==
  \E i \in 1..Len(l) :
     /\ IsIdleEntry(l[i])
     /\ \A k \in (i + 1)..Len(l) : ~IsGameStartEntry(l[k])

(* ---------------- C1 ---------------- *)
(* C1: in every reachable state at most one animation variant owns a live
   timer, no timer runs without a handle, and a variant that owns a live timer
   is the one at idleCurrent. *)
C1_AtMostOneVariantRunning ==
  /\ ~(fwTimer /\ cgTimer)
  /\ ~leaked
  /\ fwTimer => idleCurrent = Num(FingerWaveIdx)
  /\ cgTimer => idleCurrent = Num(CycleGesturesIdx)

(* the rotation has stopped FingerWave, passed TurnWrist and CycleGestures runs *)
C1_Witness ==
  /\ cgTimer
  /\ idleCurrent = Num(CycleGesturesIdx)
  /\ \E i \in 1..Len(log) : log[i] = Entry("idleTick", "FW.cleanup", Paper)

(* ---------------- C2 ---------------- *)
(* C2: gameStart stops idling before it sends its own command: the command of
   gameStart comes after the stop command of the animation it stops, and after
   it no command of a rotation tick or a variant tick is written until idle()
   has been called again; while no idle() call follows it, no timer is live. *)
C2_NoIdleCommandAfterGameStart ==
  /\ \A i \in 1..Len(log) :
        (log[i].op = "gameStart" /\ log[i].by # "out")
           => (i < Len(log) /\ IsGameStartEntry(log[i + 1]))
  /\ \A i, j \in 1..Len(log) :
        (i < j /\ IsGameStartEntry(log[i]) /\ log[j].op \in TimerOps)
           => \E k \in (i + 1)..(j - 1) : IsIdleEntry(log[k])
  /\ GameStartedSince(log) => NoTimers

(* gameStart stopped a running FingerWave, and idle mode was entered again and
   has rotated since *)
C2_Witness ==
  \E i, j, k \in 1..Len(log) :
     /\ i < j /\ j < k
     /\ log[i] = Entry("gameStart", "FW.cleanup", Paper)
     /\ IsIdleEntry(log[j])
     /\ log[k].op = "idleTick"

(* ---------------- C3 ---------------- *)
(* C3 as stated: whenever the last command written is an in-game command
   (countdown, shoot, robotWin, humanWin, tie, gameStop), no rotation timer and
   no variant timer is live. *)
C3_InGameCommandMeansNoTimers ==
  (Len(log) > 0 /\ Last(log).op = "game") => NoTimers

(* C3 as amended: whenever the last command written is an in-game command and
   idle() has not been called since the last gameStart(), no rotation timer
   and no variant timer is live, and no command of a timer tick lies between
   that gameStart() and the in-game command. *)
C3_InGameAfterGameStartMeansNoTimers ==
  (Len(log) > 0 /\ Last(log).op = "game" /\ ~IdleCalledSince(log))
     => /\ NoTimers
        /\ \A i, j \in 1..Len(log) :
              (i < j /\ IsGameStartEntry(log[i])
                 /\ \A k \in (i + 1)..Len(log) : ~IsGameStartEntry(log[k]))
                 => log[j].op \notin TimerOps

(* an in-game command right after a gameStart that stopped a running animation *)
C3_Witness ==
  /\ Len(log) > 2
  /\ Last(log).op = "game"
  /\ IsGameStartEntry(log[Len(log) - 1])
  /\ log[Len(log) - 2] = Entry("gameStart", "FW.cleanup", Paper)

(* ---------------- C4 ---------------- *)
(* C4: in every reachable state a call of stopIdleAnimations returns without
   an error, and a second call made right after it returns without an error,
   writes no command and leaves every field as the first call left it. *)
C4_StopIdleAnimationsIdempotent ==
  LET s1 == stopIdleAnimations(St("stopIdle"))
      s2 == stopIdleAnimations(s1)
  IN /\ ~s1.threw
     /\ ~s2.threw
     /\ s2.log = s1.log
     /\ s2 = s1

(* FingerWave runs, so that the first call has a command to write and two
   timers to clear *)
C4_Witness ==
  /\ fwTimer
  /\ idleTimer
  /\ idleCurrent = Num(FingerWaveIdx)
  /\ Len(stopIdleAnimations(St("stopIdle")).log) = Len(log) + 1

(* ---------------- C5 ---------------- *)
(* C5 as stated: idle() called while the rotation timer exists writes no
   command and leaves the rotation timer, idleCurrent and every variant
   unchanged. *)
C5_IdleWithTimerIsNoOp ==
  [][(idleTimer /\ Idle) => (log' = log /\ UNCHANGED sched)]_vars

(* C5 as amended: idle() called while the rotation timer exists writes
   exactly one command, the neutral pose Paper, and leaves the rotation timer,
   idleCurrent and every variant unchanged. *)
C5_IdleWithTimerOnlySendsPaper ==
  [][(idleTimer /\ Idle)
        => (log' = Append(log, Entry("idle", "out", Paper)) /\ UNCHANGED sched)]_vars

(* idle() was called while the rotation was under way with FingerWave running *)
C5_Witness ==
  /\ Len(log) > 0
  /\ IsIdleEntry(Last(log))
  /\ idleTimer
  /\ fwTimer
  /\ idleCurrent = Num(FingerWaveIdx)

(* ---------------- C6 ---------------- *)
(* How far the gesture cycle has got after the first n commands of l: "off"
   before any start, "rock" after a start, "paper" and then "scissors" after
   the ticks; "bad" once a command of the cycle is out of this order. *)
RECURSIVE CycleProgress(_, _)
CycleProgress(l, n) ==
  IF n = 0 THEN "off"
  ELSE LET q == CycleProgress(l, n - 1)
           e == l[n]
       IN IF q = "bad" THEN "bad"
          ELSE IF e.by = "CG.do"
               THEN (IF e.cmd = Rock /\ e.op = "idleTick" THEN "rock" ELSE "bad")
          ELSE IF e.by = "CG.tick"
               THEN (IF q = "rock" /\ e.cmd = Paper THEN "paper"
                     ELSE IF q = "paper" /\ e.cmd = Scissors THEN "scissors"
                     ELSE "bad")
          ELSE q

C6_ThreeMovesInOrder ==
  LET q == CycleProgress(log, Len(log))
  IN /\ q # "bad"
     /\ cgTimer => q \in {"rock", "paper"}
     /\ idleCurrent = Num(CycleGesturesIdx) => (cgTimer <=> q \in {"rock", "paper"})

(* C6: CycleGestures writes Rock at its start, Paper on its first tick and
   Scissors on its second, never anything else or anything more; while it is
   the current animation its timer is live exactly until Scissors is written,
   and it clears the timer itself; under fair ticking a live CycleGestures
   timer is eventually cleared (or the log of the model is full). *)
C6_GestureCycleRunsOnce ==
  /\ []C6_ThreeMovesInOrder
  /\ cgTimer ~> (~cgTimer \/ ~Running)

(* the cycle has run to its end on its own: still current, timer cleared *)
C6_Witness ==
  /\ idleCurrent = Num(CycleGesturesIdx)
  /\ ~cgTimer
  /\ CycleProgress(log, Len(log)) = "scissors"
  /\ Last(log) = Entry("cgTick", "CG.tick", Scissors)

(* ---------------- C7 ---------------- *)
(* the finger commands: finger i (0 thumb .. 4 pinky) relaxes with
   ThumbRelax + 2i and curls with ThumbCurl + 2i *)
Fingers == 0..4
Relax(i) == ThumbRelax + 2 * i
Curl(i) == ThumbCurl + 2 * i
RelaxCodes == {Relax(i) : i \in Fingers}
CurlCodes == {Curl(i) : i \in Fingers}

(* Where the finger wave is after the first n commands of l: "off", "on" after
   its start command, "half" between the two commands of a tick, "off" again
   after its stop command; "bad" once a command is out of this order. *)
RECURSIVE WaveProgress(_, _)
WaveProgress(l, n) ==
  IF n = 0 THEN "off"
  ELSE LET q == WaveProgress(l, n - 1)
           e == l[n]
       IN IF q = "bad" THEN "bad"
          ELSE IF e.by = "FW.do"
               THEN (IF q = "off" /\ e.cmd = Rock THEN "on" ELSE "bad")
          ELSE IF e.by = "FW.tick"
               THEN (IF q = "on" /\ e.cmd \in CurlCodes THEN "half"
                     ELSE IF q = "half" /\ e.cmd \in RelaxCodes THEN "on"
                     ELSE "bad")
          ELSE IF e.by = "FW.cleanup"
               THEN (IF q = "on" /\ e.cmd = Paper THEN "off" ELSE "bad")
          ELSE q

WaveTicks(l) == Cardinality({i \in 1..Len(l) : l[i].by = "FW.tick"})

(* C7: the commands of FingerWave are, for each start, one Rock at the start,
   one curl/relax pair for each tick, and one Paper at the stop; its timer is
   live exactly from the start command to the stop command, so it never stops
   on its own and writes nothing after the stop. *)
C7_FingerWaveStartTicksStop ==
  LET q == WaveProgress(log, Len(log))
  IN /\ q \in {"off", "on"}
     /\ fwTimer <=> q = "on"

(* started, ticked twice, then stopped *)
C7_Witness ==
  /\ WaveTicks(log) = 4
  /\ WaveProgress(log, Len(log)) = "off"
  /\ ~fwTimer
  /\ \E i \in 1..Len(log) : log[i].by = "FW.cleanup"

(* ---------------- C8 ---------------- *)
(* C8 as stated: a tick writes the relax command of a finger i and the curl
   command of the next finger (i + 1) mod 5, and advances the finger index by
   one modulo 5. *)
C8_RelaxThenCurlNext ==
  [][FingerWaveTick =>
       /\ Len(log') = Len(log) + 2
       /\ \E i \in Fingers :
             {log'[Len(log) + 1].cmd, log'[Len(log) + 2].cmd}
                = {Relax(i), Curl((i + 1) % 5)}
       /\ finger' = (finger + 1) % 5]_vars

(* C8 as amended: with the finger index f before the tick, a tick first
   writes the curl command of the finger before f, (f + 4) mod 5, then the
   relax command of the finger after f, (f + 1) mod 5, and sets the index to
   (f + 1) mod 5; the timer stays live. *)
C8_CurlBehindRelaxAhead ==
  [][FingerWaveTick =>
       /\ log' = log \o << Entry("fwTick", "FW.tick", Curl((finger + 4) % 5)),
                          Entry("fwTick", "FW.tick", Relax((finger + 1) % 5)) >>
       /\ finger' = (finger + 1) % 5
       /\ fwTimer']_vars

(* five ticks: every finger index has been ticked from and the index is back
   at its start *)
C8_Witness ==
  /\ WaveTicks(log) = 10
  /\ fwTimer
  /\ finger = 4

(* ---------------- C9 ---------------- *)
StopCommands(current) ==
  IF current = Num(FingerWaveIdx)
  THEN << Entry("idleTick", "FW.cleanup", Paper) >>
  ELSE << >>

StartCommands(i) ==
  CASE i = FingerWaveIdx -> << Entry("idleTick", "FW.do", Rock) >>
    [] i = TurnWristIdx -> << Entry("idleTick", "TW.do", TurnWrist) >>
    [] i = CycleGesturesIdx -> << Entry("idleTick", "CG.do", Rock) >>

NextIndex(current) ==
  IF current = NULL THEN 0 ELSE (current[1] + 1) % idleAnimationsLength

(* C9: a rotation tick writes the stop command of the current variant (if it
   has one), then the start command of the variant at the next index, 0 after
   none and after 2, and leaves exactly that variant's timer live; without a
   rotation timer idleCurrent is none, so the first tick of every idle period
   starts variant 0; and while idleCurrent is none no variant timer is live
   and no step but the rotation tick writes a variant's command. *)
C9_RotationInOrder ==
  [][/\ ~idleTimer' => idleCurrent' = NULL
     /\ idleCurrent' = NULL => (~fwTimer' /\ ~cgTimer')
     /\ (idleCurrent = NULL /\ ~IdleTick)
           => \A i \in (Len(log) + 1)..Len(log') : log'[i].by = "out"
     /\ IdleTick =>
           /\ idleCurrent' = Num(NextIndex(idleCurrent))
           /\ log' = log \o StopCommands(idleCurrent)
                         \o StartCommands(NextIndex(idleCurrent))
           /\ fwTimer' = (NextIndex(idleCurrent) = FingerWaveIdx)
           /\ cgTimer' = (NextIndex(idleCurrent) = CycleGesturesIdx)
           /\ idleTimer'
           /\ ~leaked']_vars

(* the rotation has gone through 0, 1, 2 and is back at 0 *)
C9_Witness ==
  /\ Len(log) > 0
  /\ Last(log) = Entry("idleTick", "FW.do", Rock)
  /\ idleCurrent = Num(FingerWaveIdx)
  /\ \E i \in 1..Len(log) : log[i].by = "CG.do"

(* ---------------- C10 ---------------- *)
(* After the neutral command of the first cleanup() no command of an engine
   call has been written: the engine has made no call that took effect. *)
NoCallAfterTeardown(l) ==
  \A i \in 1..Len(l) :
     l[i] = Entry("cleanup", "out", Paper)
        => \A k \in (i + 1)..Len(l) : l[k].op \in TimerOps

(* C10: cleanup() clears every timer and writes the stop command of a running
   FingerWave, then writes the neutral command Paper, with the transport still
   open; the transport is released only after that command; and when no engine
   call follows the teardown, no timer is live once the transport is released
   and no timer callback runs on the released transport. *)
C10_TeardownOrder ==
  [][/\ (Cleanup /\ log' # log) =>
           /\ serial = OPEN /\ serial' = OPEN
           /\ NoTimers' /\ idleCurrent' = NULL
           /\ log' = log \o (IF idleCurrent = Num(FingerWaveIdx)
                             THEN << Entry("cleanup", "FW.cleanup", Paper) >>
                             ELSE << >>)
                         \o << Entry("cleanup", "out", Paper) >>
     /\ (serial # RELEASED /\ serial' = RELEASED) =>
           \E i \in 1..Len(log) : log[i] = Entry("cleanup", "out", Paper)
     /\ (serial' = RELEASED /\ NoCallAfterTeardown(log')) => NoTimers'
     /\ (serial = RELEASED /\ NoCallAfterTeardown(log))
           => ~(IdleTick \/ CycleGesturesTick \/ FingerWaveTick)]_vars

(* the teardown stopped a running FingerWave and the transport is released *)
C10_Witness ==
  /\ serial = RELEASED
  /\ NoCallAfterTeardown(log)
  /\ \E i \in 1..Len(log) : log[i] = Entry("cleanup", "FW.cleanup", Paper)

(* ---------------- C11 ---------------- *)
(* C11 as stated: the command written by shoot(action) is the same for every
   action in {rock, paper, scissors}. *)
C11_ShootSendsFixedCommand ==
  \A a, b \in RPSActions : shoot(St("game"), a).log = shoot(St("game"), b).log

(* C11 as amended: with the transport open, shoot(action) writes exactly one
   command, the move code of its action argument, so the byte differs from
   action to action; with the transport not open it throws and writes
   nothing. *)
C11_ShootSendsItsAction ==
  \A a \in RPSActions :
     LET r == shoot(St("game"), a)
     IN IF serial = OPEN
        THEN ~r.threw /\ r.log = Append(log, Entry("game", "out", a))
        ELSE r.threw /\ r.log = log

(* shoot(Scissors) has been called: only shoot writes Scissors in a game *)
C11_Witness ==
  /\ Len(log) > 0
  /\ Last(log) = Entry("game", "out", Scissors)

(* ---------------- C12 ---------------- *)
Variants == 0 .. idleAnimationsLength - 1

VariantTimer(i, s) ==
  CASE i = FingerWaveIdx -> s.fwTimer
    [] i = TurnWristIdx -> FALSE
    [] i = CycleGesturesIdx -> s.cgTimer

(* C12 as stated: with the transport open, cleanup of a variant that has no
   live timer (never started or already stopped) raises no error, leaves it
   without a timer and writes no command, for each of the three variants. *)
C12_StopWhenNotRunningIsSilent ==
  serial = OPEN =>
    \A i \in Variants :
       ~VariantTimer(i, St("stopIdle")) =>
          LET r == Animation_cleanup(i, St("stopIdle"))
          IN ~r.threw /\ ~VariantTimer(i, r) /\ r.log = log

(* C12 as amended: with the transport open, cleanup of any variant raises no
   error and leaves the variant without a timer, and a second cleanup changes
   no timer; on a variant that is not running, TurnWrist and CycleGestures
   change nothing and write nothing, while FingerWave writes one Paper on
   every cleanup, running or not. *)
C12_StopIsSafeAndFingerWaveSendsPaper ==
  serial = OPEN =>
    LET s == St("stopIdle")
        paper == Entry("stopIdle", "FW.cleanup", Paper)
    IN /\ TurnWrist_cleanup(s) = s
       /\ ~cgTimer => CycleGestures_cleanup(s) = s
       /\ ~fwTimer => FingerWave_cleanup(s) = [s EXCEPT !.log = Append(log, paper)]
       /\ FingerWave_cleanup(s).log = Append(log, paper)
       /\ \A i \in Variants :
             LET r == Animation_cleanup(i, s)
                 r2 == Animation_cleanup(i, r)
             IN /\ ~r.threw /\ ~VariantTimer(i, r)
                /\ ~r2.threw /\ ~VariantTimer(i, r2)
                /\ r2 = [r EXCEPT !.log = r2.log]
                /\ i # FingerWaveIdx => r2 = r
                /\ i = FingerWaveIdx => r2.log = Append(r.log, paper)

(* FingerWave has been stopped by the rotation and CycleGestures has ended on
   its own: the next cleanup of either is a cleanup of a stopped variant *)
C12_Witness ==
  /\ serial = OPEN
  /\ ~fwTimer /\ ~cgTimer
  /\ idleCurrent = Num(CycleGesturesIdx)
  /\ \E i \in 1..Len(log) : log[i].by = "FW.cleanup"

(* ---------------- C13 ---------------- *)
Count(l, by) == Cardinality({i \in 1..Len(l) : l[i].by = by})

(* C13: a variant's do is only called while that variant has no live timer:
   no do overwrites the handle of an interval that was not cleared (no timer
   is ever leaked), and at every rotation tick the variant about to be
   started has no live timer. *)
C13_StartOnlyWhenNoTimer ==
  [][/\ ~leaked'
     /\ IdleTick =>
          LET n == NextIndex(idleCurrent)
          IN /\ n = FingerWaveIdx => ~fwTimer
             /\ n = CycleGesturesIdx => ~cgTimer]_vars

(* the rotation has wrapped around: FingerWave runs for the second time *)
C13_Witness ==
  /\ fwTimer
  /\ idleCurrent = Num(FingerWaveIdx)
  /\ Count(log, "FW.do") = 2
  /\ Count(log, "CG.do") = 1

(* ---------------- C14 ---------------- *)
(* C14: whenever no rotation timer exists, the current index is none and no
   variant has a live timer. *)
C14_NoRotationTimerMeansAllOff ==
  ~idleTimer => (idleCurrent = NULL /\ ~fwTimer /\ ~cgTimer)

(* the rotation was stopped by a direct stopIdleAnimations() while
   CycleGestures was the current animation with its interval live *)
C14_Witness ==
  /\ ~idleTimer
  /\ Len(log) > 1
  /\ Last(log) = Entry("idleTick", "CG.do", Rock)
  /\ idleCurrent = NULL /\ ~cgTimer

(* ---------------- C15 ---------------- *)
ValidCommands == RPSActions \cup {TurnWrist} \cup RelaxCodes \cup CurlCodes

(* C15: with move actions from {rock, paper, scissors}, every command written
   is a move code, the wrist-turn code or one of the ten finger codes;
   CycleGestures' callback only writes move codes and its counter is below
   Scissors while its interval is live, so it never passes Scissors; FingerWave's callback only writes finger codes and its
   finger index stays in 0..4, going from 4 to 0 and otherwise up by one. *)
C15_CommandsInRange ==
  /\ \A i \in 1..Len(log) :
        /\ log[i].cmd \in ValidCommands
        /\ log[i].by = "CG.tick" => log[i].cmd \in RPSActions
        /\ log[i].by = "FW.tick" => log[i].cmd \in RelaxCodes \cup CurlCodes
  /\ action \in RPSActions
  /\ cgTimer => action < Scissors
  /\ finger \in Fingers
  /\ \A f \in Fingers :
        LET r == FingerWave_tick([St("fwTick") EXCEPT
                                    !.serial = OPEN, !.fwTimer = TRUE,
                                    !.finger = f, !.log = <<>>])
        IN /\ ~r.threw
           /\ r.finger = (IF f = 4 THEN 0 ELSE f + 1)
           /\ Len(r.log) = 2
           /\ r.log[1].cmd \in CurlCodes
           /\ r.log[2].cmd \in RelaxCodes

(* a move was shown with shoot(Scissors) and FingerWave's first callback has
   wrapped its finger index from 4 to 0 *)
C15_Witness ==
  /\ fwTimer /\ finger = 0
  /\ \E i \in 1..Len(log) : log[i] = Entry("fwTick", "FW.tick", ThumbRelax)
  /\ \E i \in 1..Len(log) : log[i] = Entry("game", "out", Scissors)

(* ---------------- C16 ---------------- *)
(* C16: whenever the write inside send throws (the transport is not open),
   every operation that reaches a send ends with that exception: the external
   calls, the three timer callbacks and the helper stopIdleAnimations all
   throw, none of them writes the command (no retry, no later write), and
   the statements after the failing send are not executed: idle sets no
   timer, FingerWave's cleanup clears no timer, the callbacks of FingerWave
   and CycleGestures do not reach their next statement. *)
C16_SendFailurePropagates ==
  serial # OPEN =>
    LET Fails(r) == r.threw /\ r.log = log
    IN /\ Fails(send(St("game"), "out", Rock))
       /\ Fails(send(St("init"), "out", Rock))
       /\ Fails(idle(St("idle")))
       /\ idle(St("idle")).idleTimer = idleTimer
       /\ \A state \in CountdownStates : Fails(countdown(St("game"), state))
       /\ \A a \in RPSActions :
             Fails(shoot(St("game"), a)) /\ Fails(tie(St("game"), a))
       /\ \A robot \in RPSActions, human \in RPSActions :
             /\ Fails(robotWin(St("game"), robot, human))
             /\ Fails(humanWin(St("game"), robot, human))
       /\ Fails(gameStop(St("game")))
       /\ Fails(gameStart(St("gameStart")))
       /\ Fails(cleanup_begin(St("cleanup")))
       /\ idleTimer => Fails(idle_tick(St("idleTick")))
       /\ cgTimer =>
             LET r == CycleGestures_tick(St("cgTick"))
             IN Fails(r) /\ r.cgTimer
       /\ fwTimer =>
             LET r == FingerWave_tick(St("fwTick"))
             IN Fails(r) /\ r.finger = finger /\ r.fwTimer
       /\ idleCurrent = Num(FingerWaveIdx) =>
             LET r == stopIdleAnimations(St("stopIdle"))
             IN /\ Fails(r)
                /\ r.idleTimer = idleTimer
                /\ r.idleCurrent = idleCurrent
                /\ r.fwTimer = fwTimer

(* a rotation callback has thrown after teardown: it advanced idleCurrent to
   FingerWave, whose do threw in send before setting its interval *)
C16_Witness ==
  /\ serial = RELEASED
  /\ idleTimer
  /\ idleCurrent = Num(FingerWaveIdx)
  /\ ~fwTimer

(* ---------------- C17 ---------------- *)
(* C17: robotWin, humanWin and tie each write exactly one command, the same
   one (Rock) for the three of them and for every argument, and change
   nothing else. *)
C17_ResultsSendOneFixedCommand ==
  [][(RobotWin \/ HumanWin \/ Tie) =>
        /\ log' = Append(log, Entry("game", "out", Rock))
        /\ UNCHANGED <<sched, serial>>]_vars

(* a result was announced right after gameStart *)
C17_Witness ==
  /\ Len(log) > 1
  /\ Last(log) = Entry("game", "out", Rock)
  /\ log[Len(log) - 1] = Entry("gameStart", "out", Rock)

(* ---------------- C18 ---------------- *)
(* C18: every idle call, the first and each repeated one, ends with exactly
   one rotation timer live (none was overwritten) and leaves the current
   index, the variants' timers and their counters as they were. *)
C18_IdleKeepsOneTimerAndRotation ==
  [][Idle =>
        /\ idleTimer' /\ ~leaked'
        /\ UNCHANGED <<idleCurrent, fwTimer, finger, cgTimer, action>>]_vars

(* idle was called twice in a row while TurnWrist was the current variant *)
C18_Witness ==
  /\ Len(log) > 2
  /\ IsIdleEntry(Last(log))
  /\ IsIdleEntry(log[Len(log) - 1])
  /\ idleTimer
  /\ idleCurrent = Num(TurnWristIdx)

(* ---------------- C19 ---------------- *)
(* C19: countdown, shoot, robotWin, humanWin, tie and gameStop write one
   command and leave the rotation timer, the current index and every
   variant's timer and counter unchanged; score and tryAgain change nothing
   and write nothing; a step that changes the scheduler state is a step of
   idle, gameStart, cleanup (each directly or through the helper
   stopIdleAnimations) or of one of the three timer callbacks. *)
C19_GameEventsLeaveSchedulerAlone ==
  /\ [](/\ tryAgain(St("game")) = St("game")
        /\ \A robot \in Scores, human \in Scores :
              score(St("game"), robot, human) = St("game"))
  /\ [][/\ (Countdown \/ Shoot \/ RobotWin \/ HumanWin \/ Tie \/ GameStop) =>
              /\ UNCHANGED sched
              /\ Len(log') = Len(log) + 1
        /\ (TryAgain \/ Score) => UNCHANGED <<sched, log>>
        /\ sched' # sched =>
              \/ Idle \/ GameStart \/ Cleanup \/ StopIdleAnimations
              \/ IdleTick \/ CycleGesturesTick \/ FingerWaveTick]_vars

(* a game command was written while the rotation and FingerWave kept
   running: the countdown, which only countdown writes outside the rotation *)
C19_Witness ==
  /\ Len(log) > 0
  /\ Last(log) = Entry("game", "out", TurnWrist)
  /\ idleTimer /\ fwTimer
  /\ idleCurrent = Num(FingerWaveIdx)

(* ---------------- C20 ---------------- *)
(* the rotation callback has just started variant i *)
Started(i) ==
  /\ Len(log) > 0
  /\ << Last(log) >> = StartCommands(i)
  /\ idleCurrent = Num(i)

(* C20: once idle mode is on and is never left, with the rotation callback
   firing again and again, each of the three variants is started again and
   again; every rotation tick moves to the next index and leaves the variant
   that was current without a timer, and every started variant is followed
   by such a tick. *)
C20_EveryVariantStartedAgainAndAgain ==
  /\ \A i \in Variants : idleTimer ~> Started(i)
  /\ \A i \in Variants : Started(i) ~> (idleCurrent # Num(i) /\ ~VariantTimer(i, St("idleTick")))
  /\ [][IdleTickRotate =>
          /\ idleCurrent' = Num(NextIndex(idleCurrent))
          /\ idleCurrent = Num(FingerWaveIdx) => ~fwTimer'
          /\ idleCurrent = Num(CycleGesturesIdx) => ~cgTimer']_vars

(* the rotation has gone round: FingerWave is started again right after
   CycleGestures' commands *)
C20_Witness ==
  /\ Len(log) > 1
  /\ Started(FingerWaveIdx)
  /\ log[Len(log) - 1].by \in {"CG.do", "CG.tick"}
  /\ fwTimer /\ ~cgTimer

====
